---- MODULE Spec2Model ----
(***************************************************************************)
(* AndicBlue order / payment / inventory ledger                            *)
(* (src/andicblue_streamlit_gs.py).                                        *)
(*                                                                         *)
(* The five worksheets are sequences of rows (row i of a sequence is       *)
(* sheet row i+1, the header being sheet row 1).  Free-text columns that   *)
(* no rule reads (names, phone, address, dates, expense concept) are left  *)
(* out of the rows.  Money is integer COP; the floats of                   *)
(* mark_order_delivered hold integers far below 2^53, so they are exact.   *)
(***************************************************************************)
EXTENDS Integers, Sequences, FiniteSets, TLC

VARIABLES ws_clientes, ws_pedidos, ws_inventario, ws_flujo, ws_gastos,
          last, reporte, sesion, ingresado, solapado

vars == <<ws_clientes, ws_pedidos, ws_inventario, ws_flujo, ws_gastos,
          last, reporte, sesion, ingresado, solapado>>

tablas == <<ws_clientes, ws_pedidos, ws_inventario, ws_flujo, ws_gastos>>

(***************************************************************************)
(* Bounds of the model.                                                    *)
(***************************************************************************)
\* rows of Clientes, Pedidos, FlujoCaja and Gastos, and the largest stock and
\* the largest quantity of a line item, for Spec
MaxClientes == 1
MaxPedidos == 1
MaxFlujo == 1
MaxGastos == 1
MaxStock == 1
MaxCant == 1
\* rows of Clientes and of Pedidos, for SpecIds
MaxFilas == 3
\* rows of FlujoCaja, for SpecReentrega
MaxPagos == 2
\* rows of Pedidos, for SpecConc
MaxConc == 2
\* rows of FlujoCaja and of Gastos, for SpecReporte
MaxInforme == 2

(***************************************************************************)
(* Configuration.                                                          *)
(***************************************************************************)
PRODUCTOS ==
  ( "Docena de Arandanos 125g" :> 52500 @@
    "Arandanos_125g" :> 5000 @@
    "Arandanos_250g" :> 10000 @@
    "Arandanos_500g" :> 20000 @@
    "Kilo_industrial" :> 30000 @@
    "Mermelada_azucar" :> 16000 @@
    "Mermelada_sin_azucar" :> 20000 )

\* PRODUCTOS.keys() in insertion order
PRODUCTOS_keys ==
  << "Docena de Arandanos 125g", "Arandanos_125g", "Arandanos_250g",
     "Arandanos_500g", "Kilo_industrial", "Mermelada_azucar",
     "Mermelada_sin_azucar" >>

DOMICILIO_COST == 3000

MEDIOS == {"Efectivo", "Transferencia", "Credito (queda debiendo)", "Pago parcial"}

(***************************************************************************)
(* Inputs the operations are exercised with.                               *)
(***************************************************************************)
\* product names a request may carry: two catalog products and one name
\* that is in neither the catalog nor the seeded inventory
Nombres == <<"Arandanos_125g", "Producto_descatalogado", "Mermelada_azucar">>

Cantidades == 0 .. MaxCant

Ausente == 0 - 1

\* productos_cant: a dict, i.e. a sequence of (product, quantity) pairs with
\* distinct products, iterated in insertion order
Items(nombres, f) ==
  LET keys == SelectSeq(nombres, LAMBDA n : f[n] # Ausente)
  IN  [i \in 1 .. Len(keys) |-> [p |-> keys[i], q |-> f[keys[i]]]]

\* the form sends every catalog product (quantity 0 = not sold); a name
\* outside the catalog may be missing from the request
Opciones(n) == IF n \in DOMAIN PRODUCTOS THEN Cantidades ELSE Cantidades \cup {Ausente}

Peticiones(nombres) ==
  LET S == {nombres[i] : i \in 1 .. Len(nombres)}
  IN  { Items(nombres, f) : f \in {g \in [S -> Cantidades \cup {Ausente}] :
                                       \A n \in S : g[n] \in Opciones(n)} }

PRODUCTOS_CANT == Peticiones(Nombres)

\* requests over one catalog product and the name outside the catalog
PRODUCTOS_CANT_dos == Peticiones(<<"Arandanos_125g", "Producto_descatalogado">>)

\* requests over one catalog product
PRODUCTOS_CANT_uno == Peticiones(<<"Arandanos_125g">>)

\* the two of them with quantity 0 and 1
PRODUCTOS_CANT_pago ==
  { <<[p |-> "Arandanos_125g", q |-> 0]>>, <<[p |-> "Arandanos_125g", q |-> 1]>> }

\* those of them that sell it
PRODUCTOS_CANT_venta == {pc \in PRODUCTOS_CANT_uno : \A i \in DOMAIN pc : pc[i].q > 0}

Montos == {0, 3000, 6000, 50000}

\* one payment, for the specifications that are not about the allocation
Montos_uno == {6000}

MEDIOS_uno == {"Efectivo"}

Gastos_montos == {0, 4000}

Gastos_uno == {4000}

Sesiones == {1, 2}

(***************************************************************************)
(* Small helpers.                                                          *)
(***************************************************************************)
Max(S) == CHOOSE x \in S : \A y \in S : y <= x
Min(S) == CHOOSE x \in S : \A y \in S : x <= y
max2(a, b) == IF a >= b THEN a ELSE b
min2(a, b) == IF a <= b THEN a ELSE b

\* df.loc[mask, col].sum(): mask is a boolean per row of df
RECURSIVE sum_loc(_, _, _)
sum_loc(df, mask, col) ==
  IF df = <<>> THEN 0
  ELSE (IF Head(mask) THEN Head(df)[col] ELSE 0) + sum_loc(Tail(df), Tail(mask), col)

\* df[col].sum()
sum_col(df, col) == sum_loc(df, [i \in DOMAIN df |-> TRUE], col)

\* ws.update_cell(idx + 2, col, value): data row idx, a row that exists
update_cell(ws, idx, col, value) ==
  [ws EXCEPT ![idx] = [@ EXCEPT ![col] = value]]

(***************************************************************************)
(* Business logic.                                                         *)
(***************************************************************************)
\* a variant that forgets the "+ 1"
next_id_sin_incremento(ws, id_col) ==
  IF ws = <<>> THEN 1
  ELSE Max({ws[i][id_col] : i \in DOMAIN ws})

next_id_for_sheet(ws, id_col) ==
  IF ws = <<>> THEN 1
  ELSE Max({ws[i][id_col] : i \in DOMAIN ws}) + 1

add_cliente(clientes) ==
  LET cid == next_id_for_sheet(clientes, "ID_Cliente")
  IN  [cid |-> cid, clientes |-> Append(clientes, [ID_Cliente |-> cid])]

\* dict comprehension over the rows: a later row of a product overwrites an
\* earlier one
get_inventory_map(ws) ==
  [p \in {ws[i].Producto : i \in DOMAIN ws} |->
     ws[Max({i \in DOMAIN ws : ws[i].Producto = p})].Stock]

\* one iteration of the loop of update_inventory_after_order: ws is the
\* sheet, inv the DataFrame read from it
actualizar_producto(ws, inv, prod, qty) ==
  LET idxs == {i \in DOMAIN inv : inv[i].Producto = prod}
  IN  IF idxs = {}
      THEN LET ws2 == Append(ws, [Producto |-> prod, Stock |-> max2(0, 0 - qty)])
           IN  [ws |-> ws2, inv |-> ws2]
      ELSE LET idx == Min(idxs)
               current == inv[idx].Stock
               new_stock == max2(0, current - qty)
           IN  [ws |-> update_cell(ws, idx, "Stock", new_stock), inv |-> inv]

RECURSIVE loop_inventario(_, _, _, _)
loop_inventario(ws, inv, items, k) ==
  IF k > Len(items) THEN ws
  ELSE LET r == actualizar_producto(ws, inv, items[k].p, items[k].q)
       IN  loop_inventario(r.ws, r.inv, items, k + 1)

update_inventory_after_order(ws, products_qty) ==
  loop_inventario(ws, ws, products_qty, 1)

\* a variant of the validation loop that compares the stock of the products
\* that have a record and lets the others pass
RECURSIVE validar_solo_registrados(_, _, _)
validar_solo_registrados(inv_map, items, k) ==
  IF k > Len(items) THEN ""
  ELSE IF items[k].q <= 0 THEN validar_solo_registrados(inv_map, items, k + 1)
  ELSE IF items[k].p \in DOMAIN inv_map /\ inv_map[items[k].p] < items[k].q
       THEN "Stock insuficiente"
  ELSE validar_solo_registrados(inv_map, items, k + 1)

\* a variant of the validation loop without the stock comparison
RECURSIVE validar_sin_existencias(_, _, _)
validar_sin_existencias(inv_map, items, k) ==
  IF k > Len(items) THEN ""
  ELSE IF items[k].q <= 0 THEN validar_sin_existencias(inv_map, items, k + 1)
  ELSE IF items[k].p \notin DOMAIN inv_map THEN "Producto no existe en inventario"
  ELSE validar_sin_existencias(inv_map, items, k + 1)

\* the validation loop of create_order: "" when nothing is raised
RECURSIVE validar_stock(_, _, _)
validar_stock(inv_map, items, k) ==
  IF k > Len(items) THEN ""
  ELSE IF items[k].q <= 0 THEN validar_stock(inv_map, items, k + 1)
  ELSE IF items[k].p \notin DOMAIN inv_map THEN "Producto no existe en inventario"
  ELSE IF inv_map[items[k].p] < items[k].q THEN "Stock insuficiente"
  ELSE validar_stock(inv_map, items, k + 1)

\* index of the line item at which the validation loop raises, 0 if none
RECURSIVE primer_fallo(_, _, _)
primer_fallo(inv_map, items, k) ==
  IF k > Len(items) THEN 0
  ELSE IF items[k].q <= 0 THEN primer_fallo(inv_map, items, k + 1)
  ELSE IF items[k].p \notin DOMAIN inv_map THEN k
  ELSE IF inv_map[items[k].p] < items[k].q THEN k
  ELSE primer_fallo(inv_map, items, k + 1)

precio_de(p) == IF p \in DOMAIN PRODUCTOS THEN PRODUCTOS[p] ELSE 0

RECURSIVE calcular_subtotal(_, _)
calcular_subtotal(items, k) ==
  IF k > Len(items) THEN 0
  ELSE precio_de(items[k].p) * items[k].q + calcular_subtotal(items, k + 1)

\* the entries of the detail string "<p> x<q> (@<precio>)"
calcular_detalle(items) ==
  LET vendidos == SelectSeq(items, LAMBDA it : it.q > 0)
  IN  [i \in 1 .. Len(vendidos) |->
         [p |-> vendidos[i].p, q |-> vendidos[i].q, precio |-> precio_de(vendidos[i].p)]]

\* a variant whose total leaves the delivery fee out
nuevo_pedido_sin_domicilio(pid, cliente_id, items, domicilio_bool) ==
  LET subtotal == calcular_subtotal(items, 1)
      domicilio_monto == IF domicilio_bool THEN DOMICILIO_COST ELSE 0
  IN  [ID_Pedido |-> pid, ID_Cliente |-> cliente_id,
       Productos_detalle |-> calcular_detalle(items),
       Subtotal_productos |-> subtotal, Monto_domicilio |-> domicilio_monto,
       Total_pedido |-> subtotal, Estado |-> "Pendiente", Medio_pago |-> "",
       Monto_pagado |-> 0, Saldo_pendiente |-> subtotal]

nuevo_pedido(pid, cliente_id, items, domicilio_bool) ==
  LET subtotal == calcular_subtotal(items, 1)
      domicilio_monto == IF domicilio_bool THEN DOMICILIO_COST ELSE 0
      total_pedido == subtotal + domicilio_monto
  IN  [ID_Pedido |-> pid, ID_Cliente |-> cliente_id,
       Productos_detalle |-> calcular_detalle(items),
       Subtotal_productos |-> subtotal, Monto_domicilio |-> domicilio_monto,
       Total_pedido |-> total_pedido, Estado |-> "Pendiente", Medio_pago |-> "",
       Monto_pagado |-> 0, Saldo_pendiente |-> subtotal]

validar_cliente(clientes, cliente_id) ==
  IF clientes = <<>> \/ cliente_id \notin {clientes[i].ID_Cliente : i \in DOMAIN clientes}
  THEN "ID cliente no encontrado" ELSE ""

\* a variant that decrements each line item as soon as it is validated
create_order_por_partes(clientes, pedidos, inventario, cliente_id, productos_cant, domicilio_bool) ==
  LET e1 == validar_cliente(clientes, cliente_id)
      inv_map == get_inventory_map(inventario)
      e2 == validar_stock(inv_map, productos_cant, 1)
      k == primer_fallo(inv_map, productos_cant, 1)
      pid == next_id_for_sheet(pedidos, "ID_Pedido")
  IN  IF e1 # "" THEN [err |-> e1, pid |-> 0, pedidos |-> pedidos, inventario |-> inventario]
      ELSE IF e2 # ""
      THEN [err |-> e2, pid |-> 0, pedidos |-> pedidos,
            inventario |-> update_inventory_after_order(inventario,
                                                        SubSeq(productos_cant, 1, k - 1))]
      ELSE [err |-> "", pid |-> pid,
            pedidos |-> Append(pedidos, nuevo_pedido(pid, cliente_id, productos_cant, domicilio_bool)),
            inventario |-> update_inventory_after_order(inventario, productos_cant)]

create_order(clientes, pedidos, inventario, cliente_id, productos_cant, domicilio_bool) ==
  LET e1 == validar_cliente(clientes, cliente_id)
      e2 == validar_stock(get_inventory_map(inventario), productos_cant, 1)
      pid == next_id_for_sheet(pedidos, "ID_Pedido")
  IN  IF e1 # "" THEN [err |-> e1, pid |-> 0, pedidos |-> pedidos, inventario |-> inventario]
      ELSE IF e2 # "" THEN [err |-> e2, pid |-> 0, pedidos |-> pedidos, inventario |-> inventario]
      ELSE [err |-> "", pid |-> pid,
            pedidos |-> Append(pedidos, nuevo_pedido(pid, cliente_id, productos_cant, domicilio_bool)),
            inventario |-> update_inventory_after_order(inventario, productos_cant)]

\* a variant that does not cap the delivery part at the delivery fee
asignar_pago_sin_tope(subtotal_products, domicilio_monto, monto) ==
  LET prod_paid == min2(monto, subtotal_products)
      rem == max2(0, monto - prod_paid)
      domicilio_paid == rem
      saldo_total == (subtotal_products - prod_paid) + (domicilio_monto - domicilio_paid)
  IN  [prod_paid |-> prod_paid, domicilio_paid |-> domicilio_paid, saldo_total |-> saldo_total]

\* the payment allocation of mark_order_delivered
asignar_pago(subtotal_products, domicilio_monto, monto) ==
  LET prod_paid == min2(monto, subtotal_products)
      rem == max2(0, monto - prod_paid)
      domicilio_paid == min2(rem, domicilio_monto)
      saldo_total == (subtotal_products - prod_paid) + (domicilio_monto - domicilio_paid)
  IN  [prod_paid |-> prod_paid, domicilio_paid |-> domicilio_paid, saldo_total |-> saldo_total]

sin_resultado == [prod_paid |-> 0, domicilio_paid |-> 0, saldo_total |-> 0]

mark_order_delivered(pedidos, flujo, order_id, medio_pago, monto_pagado) ==
  IF pedidos = <<>> \/ order_id \notin {pedidos[i].ID_Pedido : i \in DOMAIN pedidos}
  THEN [err |-> "Pedido no encontrado", res |-> sin_resultado, pedidos |-> pedidos, flujo |-> flujo]
  ELSE LET row_idx == Min({i \in DOMAIN pedidos : pedidos[i].ID_Pedido = order_id})
           row == pedidos[row_idx]
           res == asignar_pago(row.Subtotal_productos, row.Monto_domicilio, monto_pagado)
       IN  [err |-> "", res |-> res,
            pedidos |-> [pedidos EXCEPT ![row_idx] =
                           [@ EXCEPT !.Estado = "Entregado", !.Medio_pago = medio_pago,
                                     !.Monto_pagado = monto_pagado,
                                     !.Saldo_pendiente = res.saldo_total]],
            flujo |-> Append(flujo, [ID_Pedido |-> order_id, Medio_pago |-> medio_pago,
                                     Ingreso_productos_recibido |-> res.prod_paid,
                                     Ingreso_domicilio_recibido |-> res.domicilio_paid,
                                     Saldo_pendiente_total |-> res.saldo_total])]

add_expense(gastos, monto) == Append(gastos, [Monto |-> monto])

\* a variant that subtracts the entered quantity
form_update_inventory_resta(ws, df_inv, prod, nueva) ==
  LET idx == Min({i \in DOMAIN df_inv : df_inv[i].Producto = prod})
      current == ws[idx].Stock
  IN  update_cell(ws, idx, "Stock", current - nueva)

\* form_update_inventory: df_inv is the sheet as read when the page was drawn
form_update_inventory(ws, df_inv, prod, nueva) ==
  LET idx == Min({i \in DOMAIN df_inv : df_inv[i].Producto = prod})
      current == ws[idx].Stock
  IN  update_cell(ws, idx, "Stock", current + nueva)

(***************************************************************************)
(* Flujo & Gastos aggregation.                                             *)
(***************************************************************************)
total_prod_efectivo(df_flujo) ==
  sum_loc(df_flujo, [k \in DOMAIN df_flujo |-> df_flujo[k].Medio_pago = "Efectivo"],
          "Ingreso_productos_recibido")

total_prod_transfer(df_flujo) ==
  sum_loc(df_flujo, [k \in DOMAIN df_flujo |-> df_flujo[k].Medio_pago = "Transferencia"],
          "Ingreso_productos_recibido")

total_prod_other(df_flujo) ==
  sum_loc(df_flujo,
          [k \in DOMAIN df_flujo |-> df_flujo[k].Medio_pago \notin {"Efectivo", "Transferencia"}],
          "Ingreso_productos_recibido")

\* a variant that adds the delivery income to the product income
total_prod_con_domicilios(df_flujo) ==
  total_prod_efectivo(df_flujo) + total_prod_transfer(df_flujo) + total_prod_other(df_flujo)
  + sum_col(df_flujo, "Ingreso_domicilio_recibido")

total_prod(df_flujo) ==
  total_prod_efectivo(df_flujo) + total_prod_transfer(df_flujo) + total_prod_other(df_flujo)

total_domicilios(df_flujo) ==
  sum_col(df_flujo, "Ingreso_domicilio_recibido")

total_gastos(df_gastos) == sum_col(df_gastos, "Monto")

saldo_real(df_flujo, df_gastos) == total_prod(df_flujo) - total_gastos(df_gastos)


(***************************************************************************)
(* What the record of the last call keeps of a create_order request.       *)
(***************************************************************************)
\* number of sold line items that passed validation before the raise
validos_antes(inv_map, items) ==
  LET k == primer_fallo(inv_map, items, 1)
  IN  Cardinality({i \in 1 .. Len(items) : i < k /\ items[i].q > 0})

nota(op, err) ==
  [op |-> op, err |-> err, antes |-> 0, ausente |-> FALSE, ausente_pos |-> FALSE,
   domicilio_bool |-> FALSE]

nota_pedido(err, inventario, items, domicilio_bool) ==
  LET inv_map == get_inventory_map(inventario)
  IN  [op |-> "create_order", err |-> err,
       antes |-> validos_antes(inv_map, items),
       ausente |-> \E i \in DOMAIN items : items[i].p \notin DOMAIN inv_map,
       ausente_pos |-> \E i \in DOMAIN items : items[i].p \notin DOMAIN inv_map /\ items[i].q > 0,
       domicilio_bool |-> domicilio_bool]

(***************************************************************************)
(* Initial state: fresh spreadsheet, inventory seeded with stock 0.        *)
(***************************************************************************)
inventario_inicial ==
  [i \in 1 .. Len(PRODUCTOS_keys) |-> [Producto |-> PRODUCTOS_keys[i], Stock |-> 0]]

sesion_libre ==
  [pc |-> "libre", cliente_id |-> 0, productos_cant |-> <<>>, domicilio_bool |-> FALSE,
   pid |-> 0, inv |-> <<>>, k |-> 0]

sin_reporte == [total_prod |-> 0, total_domicilios |-> 0, total_gastos |-> 0, saldo_real |-> 0]

NombresSet == {Nombres[i] : i \in 1 .. Len(Nombres)}

Init ==
  /\ ws_clientes = <<>>
  /\ ws_pedidos = <<>>
  /\ ws_inventario = inventario_inicial
  /\ ws_flujo = <<>>
  /\ ws_gastos = <<>>
  /\ last = nota("inicio", "")
  /\ reporte = sin_reporte
  /\ sesion = [s \in Sesiones |-> sesion_libre]
  /\ ingresado = [n \in NombresSet |-> 0]
  /\ solapado = FALSE

(***************************************************************************)
(* Operations, each run to completion.  The parameters are the input sets  *)
(* and the table sizes a specification exercises them with.               *)
(***************************************************************************)
AddCliente(maxClientes) ==
  /\ Len(ws_clientes) < maxClientes
  /\ LET r == add_cliente(ws_clientes)
     IN  /\ ws_clientes' = r.clientes
         /\ last' = nota("add_cliente", "")
  /\ UNCHANGED <<ws_pedidos, ws_inventario, ws_flujo, ws_gastos, reporte, sesion,
                 ingresado, solapado>>

CreateOrder(ids, peticiones, maxPedidos) ==
  \E cliente_id \in ids, productos_cant \in peticiones, domicilio_bool \in BOOLEAN :
    LET r == create_order(ws_clientes, ws_pedidos, ws_inventario,
                          cliente_id, productos_cant, domicilio_bool)
    IN  /\ r.err = "" => Len(ws_pedidos) < maxPedidos
        /\ ws_pedidos' = r.pedidos
        /\ ws_inventario' = r.inventario
        /\ last' = nota_pedido(r.err, ws_inventario, productos_cant, domicilio_bool)
        /\ UNCHANGED <<ws_clientes, ws_flujo, ws_gastos, reporte, sesion, ingresado, solapado>>

\* order_id: every id of the table, and one that is not in it
MarkOrderDelivered(medios, montos, maxFlujo) ==
  \E order_id \in 1 .. Len(ws_pedidos) + 1, medio_pago \in medios, monto \in montos :
    LET r == mark_order_delivered(ws_pedidos, ws_flujo, order_id, medio_pago, monto)
    IN  /\ r.err = "" => Len(ws_flujo) < maxFlujo
        /\ ws_pedidos' = r.pedidos
        /\ ws_flujo' = r.flujo
        /\ last' = nota("mark_order_delivered", r.err)
        /\ UNCHANGED <<ws_clientes, ws_inventario, ws_gastos, reporte, sesion, ingresado,
                       solapado>>

\* the form offers the products of the sheet; nueva has min_value 0
FormUpdateInventory(productos) ==
  \E prod \in productos, nueva \in 0 .. MaxStock :
    /\ prod \in {ws_inventario[i].Producto : i \in DOMAIN ws_inventario}
    /\ LET inv2 == form_update_inventory(ws_inventario, ws_inventario, prod, nueva)
       IN  /\ \A i \in DOMAIN inv2 : inv2[i].Stock <= MaxStock
           /\ ws_inventario' = inv2
    /\ ingresado' = [ingresado EXCEPT ![prod] = @ + nueva]
    /\ last' = nota("form_update_inventory", "")
    /\ UNCHANGED <<ws_clientes, ws_pedidos, ws_flujo, ws_gastos, reporte, sesion, solapado>>

AddExpense(montos, maxGastos) ==
  \E monto \in montos :
    /\ Len(ws_gastos) < maxGastos
    /\ ws_gastos' = add_expense(ws_gastos, monto)
    /\ last' = nota("add_expense", "")
    /\ UNCHANGED <<ws_clientes, ws_pedidos, ws_inventario, ws_flujo, reporte, sesion,
                   ingresado, solapado>>

\* the Flujo & Gastos page
FlujoYGastos ==
  /\ reporte' = [total_prod |-> total_prod(ws_flujo),
                 total_domicilios |-> total_domicilios(ws_flujo),
                 total_gastos |-> total_gastos(ws_gastos),
                 saldo_real |-> saldo_real(ws_flujo, ws_gastos)]
  /\ last' = nota("flujo_y_gastos", "")
  /\ UNCHANGED <<tablas, sesion, ingresado, solapado>>

(***************************************************************************)
(* Spec: the five operations, one at a time.                               *)
(***************************************************************************)
\* every registered id, and one that is not registered
ids_todos == 1 .. Len(ws_clientes) + 1
\* the last registered id, and one that is not registered
ids_ultimo == {Len(ws_clientes), Len(ws_clientes) + 1} \ {0}

Registrar == AddCliente(MaxClientes)
Pedir == CreateOrder(ids_todos, PRODUCTOS_CANT, MaxPedidos)
Entregar == MarkOrderDelivered(MEDIOS_uno, Montos_uno, MaxFlujo)
Reponer == FormUpdateInventory(NombresSet)
Gastar == AddExpense(Gastos_uno, MaxGastos)

Next == Registrar \/ Pedir \/ Entregar \/ Reponer \/ Gastar

Spec == Init /\ [][Next]_vars

(***************************************************************************)
(* SpecPedidos: add_cliente, create_order over a catalog product and a     *)
(* name outside the catalog, and the replenishment of the catalog product. *)
(***************************************************************************)
PedirDos == CreateOrder(ids_todos, PRODUCTOS_CANT_dos, MaxPedidos)
ReponerUno == FormUpdateInventory({"Arandanos_125g"})

NextPedidos == Registrar \/ PedirDos \/ ReponerUno

SpecPedidos == Init /\ [][NextPedidos]_vars

(***************************************************************************)
(* SpecIds: add_cliente and create_order, up to MaxFilas rows each.        *)
(***************************************************************************)
RegistrarIds == AddCliente(MaxFilas)
PedirIds == CreateOrder(ids_todos, PRODUCTOS_CANT_uno, MaxFilas)

NextIds == RegistrarIds \/ PedirIds

SpecIds == Init /\ [][NextIds]_vars

(***************************************************************************)
(* SpecPagos: orders of one product, settled with every payment of Montos. *)
(***************************************************************************)
PedirPagos == CreateOrder(ids_ultimo, PRODUCTOS_CANT_pago, MaxPedidos)
EntregarPagos == MarkOrderDelivered(MEDIOS_uno, Montos, MaxFlujo)

NextPagos == Registrar \/ PedirPagos \/ EntregarPagos \/ ReponerUno

SpecPagos == Init /\ [][NextPagos]_vars

(***************************************************************************)
(* SpecReentrega: the five operations, with up to MaxPagos settlements.    *)
(***************************************************************************)
Reentregar == MarkOrderDelivered(MEDIOS_uno, Montos, MaxPagos)

NextReentrega == Registrar \/ PedirPagos \/ Reentregar \/ ReponerUno \/ Gastar

SpecReentrega == Init /\ [][NextReentrega]_vars

(***************************************************************************)
(* SpecReporte: the Flujo & Gastos page over every content of FlujoCaja    *)
(* and Gastos of up to MaxInforme rows.                                    *)
(***************************************************************************)
Ingresos_productos == {0, 5000}
Ingresos_domicilio == {0, DOMICILIO_COST}

FilasFlujo ==
  [ID_Pedido : {1}, Medio_pago : MEDIOS, Ingreso_productos_recibido : Ingresos_productos,
   Ingreso_domicilio_recibido : Ingresos_domicilio, Saldo_pendiente_total : {0}]

FilasGastos == [Monto : Gastos_montos]

Tablas(filas, n) == UNION {[1 .. m -> filas] : m \in 0 .. n}

InitReporte ==
  /\ ws_clientes = <<>>
  /\ ws_pedidos = <<>>
  /\ ws_inventario = inventario_inicial
  /\ ws_flujo \in Tablas(FilasFlujo, MaxInforme)
  /\ ws_gastos \in Tablas(FilasGastos, MaxInforme)
  /\ last = nota("inicio", "")
  /\ reporte = sin_reporte
  /\ sesion = [s \in Sesiones |-> sesion_libre]
  /\ ingresado = [n \in NombresSet |-> 0]
  /\ solapado = FALSE

NextReporte == FlujoYGastos

SpecReporte == InitReporte /\ [][NextReporte]_vars

(***************************************************************************)
(* SpecConc: two sessions run create_order one store round-trip at a time. *)
(***************************************************************************)
EnCurso == {s \in Sesiones : sesion[s].pc # "libre"}

\* df_from_ws(ws_clientes) and the customer check
CO_Inicio(s) ==
  \E cliente_id \in ids_ultimo,
     productos_cant \in PRODUCTOS_CANT_venta, domicilio_bool \in {FALSE} :
    /\ sesion[s].pc = "libre"
    /\ Len(ws_pedidos) + Cardinality(EnCurso) < MaxConc
    /\ LET e1 == validar_cliente(ws_clientes, cliente_id)
       IN  IF e1 # ""
           THEN /\ last' = nota("create_order", e1)
                /\ UNCHANGED <<sesion, solapado>>
           ELSE /\ sesion' = [sesion EXCEPT ![s] =
                                [sesion_libre EXCEPT !.pc = "validar",
                                                     !.cliente_id = cliente_id,
                                                     !.productos_cant = productos_cant,
                                                     !.domicilio_bool = domicilio_bool]]
                /\ solapado' = (solapado \/ EnCurso # {})
                /\ UNCHANGED last
    /\ UNCHANGED <<tablas, reporte, ingresado>>

\* get_inventory_map() and the validation loop
CO_Validar(s) ==
  /\ sesion[s].pc = "validar"
  /\ LET e2 == validar_stock(get_inventory_map(ws_inventario), sesion[s].productos_cant, 1)
     IN  IF e2 # ""
         THEN /\ sesion' = [sesion EXCEPT ![s] = sesion_libre]
              /\ last' = nota("create_order", e2)
         ELSE /\ sesion' = [sesion EXCEPT ![s].pc = "next_id"]
              /\ UNCHANGED last
  /\ UNCHANGED <<tablas, reporte, ingresado, solapado>>

\* next_id_for_sheet(ws_pedidos, "ID Pedido")
CO_NextId(s) ==
  /\ sesion[s].pc = "next_id"
  /\ sesion' = [sesion EXCEPT ![s].pc = "anexar",
                              ![s].pid = next_id_for_sheet(ws_pedidos, "ID_Pedido")]
  /\ UNCHANGED <<tablas, last, reporte, ingresado, solapado>>

\* append_row_ws(ws_pedidos, ...)
CO_Anexar(s) ==
  /\ sesion[s].pc = "anexar"
  /\ ws_pedidos' = Append(ws_pedidos,
                          nuevo_pedido(sesion[s].pid, sesion[s].cliente_id,
                                       sesion[s].productos_cant, sesion[s].domicilio_bool))
  /\ sesion' = [sesion EXCEPT ![s].pc = "leer_inv"]
  /\ UNCHANGED <<ws_clientes, ws_inventario, ws_flujo, ws_gastos, last, reporte,
                 ingresado, solapado>>

\* inv = df_from_ws(ws_inventario) of update_inventory_after_order
CO_LeerInv(s) ==
  /\ sesion[s].pc = "leer_inv"
  /\ sesion' = [sesion EXCEPT ![s].pc = "bucle", ![s].inv = ws_inventario, ![s].k = 1]
  /\ UNCHANGED <<tablas, last, reporte, ingresado, solapado>>

\* one iteration of the loop of update_inventory_after_order, or its end
CO_Bucle(s) ==
  /\ sesion[s].pc = "bucle"
  /\ IF sesion[s].k > Len(sesion[s].productos_cant)
     THEN /\ sesion' = [sesion EXCEPT ![s] = sesion_libre]
          /\ last' = nota("create_order", "")
          /\ UNCHANGED ws_inventario
     ELSE LET it == sesion[s].productos_cant[sesion[s].k]
              r == actualizar_producto(ws_inventario, sesion[s].inv, it.p, it.q)
          IN  /\ ws_inventario' = r.ws
              /\ sesion' = [sesion EXCEPT ![s].inv = r.inv, ![s].k = @ + 1]
              /\ UNCHANGED last
  /\ UNCHANGED <<ws_clientes, ws_pedidos, ws_flujo, ws_gastos, reporte, ingresado, solapado>>

Inicio == \E s \in Sesiones : CO_Inicio(s)
Validar == \E s \in Sesiones : CO_Validar(s)
NextId == \E s \in Sesiones : CO_NextId(s)
Anexar == \E s \in Sesiones : CO_Anexar(s)
LeerInv == \E s \in Sesiones : CO_LeerInv(s)
Bucle == \E s \in Sesiones : CO_Bucle(s)

NextConc ==
  Registrar \/ ReponerUno \/ Inicio \/ Validar \/ NextId \/ Anexar \/ LeerInv \/ Bucle

SpecConc == Init /\ [][NextConc]_vars

(***************************************************************************)
(* Properties.                                                             *)
(***************************************************************************)
\* stock of product p as get_inventory_map reads it, 0 without a record
stock_de(ws, p) ==
  LET inv_map == get_inventory_map(ws)
  IN  IF p \in DOMAIN inv_map THEN inv_map[p] ELSE 0

\* quantity of product p in the line items of an order row
cantidad_en(detalle, p) ==
  sum_loc(detalle, [k \in DOMAIN detalle |-> detalle[k].p = p], "q")

\* sum of price times quantity over the line items of an order row
RECURSIVE importe_detalle(_)
importe_detalle(detalle) ==
  IF detalle = <<>> THEN 0
  ELSE (IF Head(detalle).p \in DOMAIN PRODUCTOS THEN PRODUCTOS[Head(detalle).p] ELSE 0)
         * Head(detalle).q
       + importe_detalle(Tail(detalle))

\* C1: whenever create_order raises (unknown customer, product missing from
\* the inventory, or a quantity above the stock, also after a valid earlier
\* line item), Pedidos and Inventario are exactly as before the call.
C1_TodoONada ==
  [][ (last'.op = "create_order" /\ last'.err # "")
        => (ws_pedidos' = ws_pedidos /\ ws_inventario' = ws_inventario) ]_vars

\* a create_order has raised "Stock insuficiente" after validating an earlier
\* sold line item
C1_Rechazado ==
  last.op = "create_order" /\ last.err = "Stock insuficiente" /\ last.antes >= 1

\* C2: in every state reached by the five operations from the seeded
\* inventory, every stock is a non-negative integer.
C2_StockNoNegativo ==
  \A i \in DOMAIN ws_inventario : ws_inventario[i].Stock \in Nat

\* the five operations have run and an order has taken stock that was
\* replenished
C2_Vendido ==
  /\ Len(ws_clientes) >= 1 /\ Len(ws_pedidos) >= 1
  /\ Len(ws_flujo) >= 1 /\ Len(ws_gastos) >= 1
  /\ \E p \in NombresSet : ingresado[p] > 0 /\ stock_de(ws_inventario, p) < ingresado[p]

\* C3: an accepted create_order leaves every product with its stock minus
\* the ordered quantity exactly (its stock, for quantity 0), and the
\* difference the floor max(0, ...) is applied to is never below zero.
C3_DescuentoExacto ==
  [][ (last'.op = "create_order" /\ last'.err = "")
        => LET detalle == ws_pedidos'[Len(ws_pedidos')].Productos_detalle
           IN  /\ Len(ws_pedidos') = Len(ws_pedidos) + 1
               /\ \A i \in DOMAIN ws_inventario :
                    LET p == ws_inventario[i].Producto
                    IN  /\ ws_inventario'[i].Producto = p
                        /\ ws_inventario[i].Stock - cantidad_en(detalle, p) >= 0
                        /\ ws_inventario'[i].Stock
                             = ws_inventario[i].Stock - cantidad_en(detalle, p)
               /\ \A i \in DOMAIN ws_inventario' \ DOMAIN ws_inventario :
                    /\ cantidad_en(detalle, ws_inventario'[i].Producto) = 0
                    /\ ws_inventario'[i].Stock = 0 ]_vars

\* an order with a sold line item has just been accepted
C3_Aceptado ==
  /\ last.op = "create_order" /\ last.err = ""
  /\ Len(ws_pedidos[Len(ws_pedidos)].Productos_detalle) >= 1

\* C4: a settlement pays the product subtotal first and the delivery fee
\* with what is left, up to the fee: the applied amounts and the balance are
\* those of the allocation rule, their sum is at most the total, the balance
\* is never negative and it is 0 from a payment of the total on.
C4_Asignacion ==
  (last.op = "mark_order_delivered" /\ last.err = "")
    => LET f == ws_flujo[Len(ws_flujo)]
           o == ws_pedidos[Min({i \in DOMAIN ws_pedidos :
                                  ws_pedidos[i].ID_Pedido = f.ID_Pedido})]
           a == o.Monto_pagado
           S == o.Subtotal_productos
           D == o.Monto_domicilio
           pp == f.Ingreso_productos_recibido
           dp == f.Ingreso_domicilio_recibido
           sal == f.Saldo_pendiente_total
       IN  /\ pp = (IF a <= S THEN a ELSE S)
           /\ dp = (IF a <= S THEN 0 ELSE IF a - S <= D THEN a - S ELSE D)
           /\ sal = (S - pp) + (D - dp)
           /\ o.Saldo_pendiente = sal
           /\ o.Estado = "Entregado"
           /\ (dp > 0 => pp = S)
           /\ pp + dp <= o.Total_pedido
           /\ sal >= 0
           /\ (a >= S + D => sal = 0)

\* an order with products and delivery has just been settled with more than
\* its total
C4_Sobrepago ==
  /\ last.op = "mark_order_delivered" /\ last.err = ""
  /\ \E i \in DOMAIN ws_pedidos :
       /\ ws_pedidos[i].ID_Pedido = ws_flujo[Len(ws_flujo)].ID_Pedido
       /\ ws_pedidos[i].Subtotal_productos > 0
       /\ ws_pedidos[i].Monto_domicilio > 0
       /\ ws_pedidos[i].Monto_pagado > ws_pedidos[i].Total_pedido
       /\ ws_pedidos[i].Saldo_pendiente = 0

\* C5: in every reachable state, also after an order is settled more than
\* once, each order's balance is non-negative and at most subtotal plus
\* delivery fee minus the amounts applied to it over all its FlujoCaja
\* entries, and those amounts never exceed the order's total.
C5_SaldoAcotado ==
  \A i \in DOMAIN ws_pedidos :
    LET o == ws_pedidos[i]
        aplicado ==
          sum_loc(ws_flujo, [k \in DOMAIN ws_flujo |-> ws_flujo[k].ID_Pedido = o.ID_Pedido],
                  "Ingreso_productos_recibido")
          + sum_loc(ws_flujo, [k \in DOMAIN ws_flujo |-> ws_flujo[k].ID_Pedido = o.ID_Pedido],
                    "Ingreso_domicilio_recibido")
    IN  /\ o.Saldo_pendiente >= 0
        /\ o.Saldo_pendiente <= o.Subtotal_productos + o.Monto_domicilio - aplicado
        /\ aplicado <= o.Total_pedido

\* C6: the ids of Clientes and of Pedidos are 1, 2, 3, ... in row order, so
\* no two rows of a table share an id and each new id is greater than every
\* earlier one.
C6_Ids ==
  /\ \A i \in DOMAIN ws_clientes : ws_clientes[i].ID_Cliente = i
  /\ \A i \in DOMAIN ws_pedidos : ws_pedidos[i].ID_Pedido = i

\* both tables hold at least two rows
C6_DosFilas == Len(ws_clientes) >= 2 /\ Len(ws_pedidos) >= 2

\* C7: the reported balance is the sum of the product income of all
\* FlujoCaja entries, each counted once whatever its payment method, minus
\* the sum of the expenses, and neither it nor the product total changes
\* with the delivery income.
C7_SaldoReal ==
  last.op = "flujo_y_gastos"
    => /\ reporte.total_prod
            = sum_col(ws_flujo, "Ingreso_productos_recibido")
       /\ reporte.saldo_real
            = sum_col(ws_flujo, "Ingreso_productos_recibido")
              - sum_col(ws_gastos, "Monto")
       /\ \A d \in [DOMAIN ws_flujo -> Ingresos_domicilio] :
            LET otro == [i \in DOMAIN ws_flujo |->
                           [ws_flujo[i] EXCEPT !.Ingreso_domicilio_recibido = d[i]]]
            IN  /\ total_prod(otro) = reporte.total_prod
                /\ saldo_real(otro, ws_gastos) = reporte.saldo_real

\* a report over entries of two payment buckets whose delivery income is
\* larger than their product income, with expenses
C7_DomicilioMayor ==
  /\ last.op = "flujo_y_gastos"
  /\ reporte.total_domicilios > reporte.total_prod
  /\ reporte.total_prod > 0
  /\ reporte.total_gastos > 0
  /\ \E i, j \in DOMAIN ws_flujo :
       /\ ws_flujo[i].Medio_pago = "Efectivo"
       /\ ws_flujo[j].Medio_pago \notin {"Efectivo", "Transferencia"}

\* C8: every order row has subtotal + delivery fee = total, the fee being
\* DOMICILIO_COST when delivery was requested and 0 otherwise and the
\* subtotal the sum of catalog price times quantity over its line items; a
\* new order is Pendiente with no payment method, nothing paid and balance =
\* subtotal; no later operation changes subtotal, fee or total.
C8_Totales ==
  /\ [](\A i \in DOMAIN ws_pedidos :
          LET o == ws_pedidos[i]
          IN  /\ o.Subtotal_productos + o.Monto_domicilio = o.Total_pedido
              /\ o.Monto_domicilio \in {0, DOMICILIO_COST}
              /\ o.Subtotal_productos = importe_detalle(o.Productos_detalle))
  /\ [][ /\ (last'.op = "create_order" /\ last'.err = "")
             => LET o == ws_pedidos'[Len(ws_pedidos')]
                IN  /\ Len(ws_pedidos') = Len(ws_pedidos) + 1
                    /\ o.Monto_domicilio
                         = (IF last'.domicilio_bool THEN DOMICILIO_COST ELSE 0)
                    /\ o.Estado = "Pendiente"
                    /\ o.Medio_pago = ""
                    /\ o.Monto_pagado = 0
                    /\ o.Saldo_pendiente = o.Subtotal_productos
        /\ \A i \in DOMAIN ws_pedidos :
             /\ i \in DOMAIN ws_pedidos'
             /\ ws_pedidos'[i].Subtotal_productos = ws_pedidos[i].Subtotal_productos
             /\ ws_pedidos'[i].Monto_domicilio = ws_pedidos[i].Monto_domicilio
             /\ ws_pedidos'[i].Total_pedido = ws_pedidos[i].Total_pedido ]_vars

\* an order with products and delivery fee has been settled
C8_Entregado ==
  \E i \in DOMAIN ws_pedidos :
    /\ ws_pedidos[i].Estado = "Entregado"
    /\ ws_pedidos[i].Monto_domicilio = DOMICILIO_COST
    /\ ws_pedidos[i].Subtotal_productos > 0

\* C9 as stated: create_order raises, and creates neither an order row nor
\* an inventory record, whenever the request names a product that has no
\* inventory record, whatever its quantity.
C9_SiempreRechaza ==
  [][ (last'.op = "create_order" /\ last'.ausente)
        => /\ last'.err # ""
           /\ ws_pedidos' = ws_pedidos
           /\ ws_inventario' = ws_inventario ]_vars

\* C9, amended: create_order raises and changes nothing whenever the
\* request gives a quantity above 0 to a product without inventory record;
\* a request that names such products with quantity 0 only is not rejected
\* for them, and when it is accepted every new inventory record has stock 0.
C9_RechazaSiVende ==
  [][ /\ (last'.op = "create_order" /\ last'.ausente_pos)
           => /\ last'.err # ""
              /\ ws_pedidos' = ws_pedidos
              /\ ws_inventario' = ws_inventario
      /\ (last'.op = "create_order" /\ last'.ausente /\ ~last'.ausente_pos
             /\ last'.err = "")
           => /\ Len(ws_inventario') > Len(ws_inventario)
              /\ \A i \in DOMAIN ws_inventario' \ DOMAIN ws_inventario :
                   ws_inventario'[i].Stock = 0 ]_vars

\* a create_order has raised for a sold product without inventory record
C9_NoExiste ==
  /\ last.op = "create_order" /\ last.ausente_pos
  /\ last.err = "Producto no existe en inventario"

\* quantity of product p sold by the accepted orders
RECURSIVE vendido_en(_, _)
vendido_en(pedidos, p) ==
  IF pedidos = <<>> THEN 0
  ELSE cantidad_en(Head(pedidos).Productos_detalle, p) + vendido_en(Tail(pedidos), p)

\* C10: when no create_order is running, the orders have sold more of a
\* product than the stock taken out of the inventory (replenished minus
\* present) only if two create_order executions overlapped; with each
\* create_order run to completion before the next starts it does not happen.
C10_SoloConSolape ==
  (/\ EnCurso = {}
   /\ \E p \in NombresSet :
        vendido_en(ws_pedidos, p) > ingresado[p] - stock_de(ws_inventario, p))
    => solapado

\* two overlapping create_order were both accepted for more than the stock
C10_Sobrevendido ==
  /\ EnCurso = {} /\ solapado
  /\ Len(ws_pedidos) >= 2
  /\ \E p \in NombresSet :
       /\ cantidad_en(ws_pedidos[1].Productos_detalle, p) > 0
       /\ cantidad_en(ws_pedidos[2].Productos_detalle, p) > 0
       /\ vendido_en(ws_pedidos, p) > ingresado[p]
       /\ vendido_en(ws_pedidos, p) > ingresado[p] - stock_de(ws_inventario, p)

====
